---- MODULE Spec2Model ----
(***************************************************************************)
(* Model of exoFlickrAuth (indra/newview/exoflickrauth.cpp): the Flickr    *)
(* OAuth 1.0a handshake object.  One attempt is one heap object created by *)
(* `new exoFlickrAuth(callback)`; it lives from its constructor to its     *)
(* `delete this`.  Handlers run to completion on the viewer's main loop,   *)
(* so every handler is one atomic action.                                  *)
(***************************************************************************)
EXTENDS Integers, Sequences, FiniteSets, TLC

\* Number of constructions `new exoFlickrAuth(callback)` explored.
MaxAttempts == 3

\* The attempts, numbered in the order they are constructed.
Attempts == 1..MaxAttempts

\* The five per-account settings the file reads and writes.
Keys == {"ExodusFlickrToken", "ExodusFlickrTokenSecret", "ExodusFlickrFullName",
         "ExodusFlickrNSID", "ExodusFlickrUsername"}

\* LLSD(): the undefined/empty LLSD value, here the map with no keys.
LLSD == [k \in {} |-> ""]

\* params["key"].asString(): a missing key reads as the empty string.
asString(params, key) == IF key \in DOMAIN params THEN params[key] ELSE ""

\* result[key] = value on an LLSD map.
LLSDSet(m, key, value) ==
    [k \in (DOMAIN m) \cup {key} |-> IF k = key THEN value ELSE m[k]]

\* LLURI::queryMap: the body is a list of key=value tuples (split at '&'),
\* assigned left to right into a map, a later tuple overriding an earlier one.
RECURSIVE queryMapFrom(_, _)
queryMapFrom(tuples, result) ==
    IF tuples = << >> THEN result
    ELSE queryMapFrom(Tail(tuples), LLSDSet(result, Head(tuples)[1], Head(tuples)[2]))

\* A body parses when every tuple of it is a key=value pair.
WellFormed(tuples) == \A i \in 1..Len(tuples) : Len(tuples[i]) = 2

\* A body that does not parse decodes to the empty payload.
queryMap(tuples) == IF WellFormed(tuples) THEN queryMapFrom(tuples, LLSD) ELSE LLSD

\* A body that is no list of key=value pairs, such as an HTML error page.
Malformed == << << "<html>error</html>" >> >>

\* exoFlickrAuthResponse: hands (status is HTTP_OK, queryMap(raw body)) to the
\* bound continuation.
exoFlickrAuthResponse(aData) ==
    [success |-> (aData.status = "HTTP_OK"), params |-> queryMap(aData.raw)]

\* Raw bodies the request-token endpoint may answer with.
RequestTokenBodies ==
    { << >>,
      Malformed,
      << <<"oauth_token", "ABC">>, <<"oauth_token_secret", "XYZ">> >>,
      << <<"oauth_token", "ABC">> >> }

\* Raw bodies the access-token endpoint may answer with.
AccessTokenBodies ==
    { << >>,
      Malformed,
      << <<"oauth_token", "T2">>, <<"oauth_token_secret", "S2">>,
         <<"fullname", "Jane Doe">>, <<"user_nsid", "123">>, <<"username", "jane">> >> }

HttpStatuses == {"HTTP_OK", "HTTP_ERROR"}

\* Outcomes exoFlickr::request hands to checkResult for flickr.test.login:
\* a transport failure (with or without a parsed body), or a parsed response.
LoginTestResults ==
    { [success |-> FALSE, response |-> LLSD],
      [success |-> FALSE, response |-> [stat |-> "ok"]],
      [success |-> TRUE,  response |-> LLSD],
      [success |-> TRUE,  response |-> [stat |-> "fail"]],
      [success |-> TRUE,  response |-> [stat |-> "ok"]] }

\* LLNotificationsUtil::getSelectedOption: index of the pressed button, -1 if none.
Options == {-1, 0, 1}

\* Settings a session can start with: nothing stored, or the five fields a
\* previous successful handshake stored.
NoCredentials == [k \in Keys |-> ""]
StoredCredentials ==
    [k \in Keys |-> CASE k = "ExodusFlickrToken" -> "T0"
                      [] k = "ExodusFlickrTokenSecret" -> "S0"
                      [] k = "ExodusFlickrFullName" -> "Jane Doe"
                      [] k = "ExodusFlickrNSID" -> "123"
                      [] k = "ExodusFlickrUsername" -> "jane"]

VARIABLES
    sAuthorisationInProgress,   \* static bool exoFlickrAuth::sAuthorisationInProgress
    gSavedPerAccountSettings,   \* the five Exodus Flickr settings
    constructed,                \* how many attempts have been constructed so far
    started,                    \* attempts whose constructor passed the guard
    pending,                    \* per attempt: the continuation bound to `this`
    mAuthenticating,            \* per attempt: the value the destructor read
    called,                     \* per attempt: the mCallback invocations
    log,                        \* per attempt: its interactions so far, in order, without values
    delivered,                  \* the handler the main loop ran last, with its inputs
    effects,                    \* the calls that handler made, in order, with their values
    received                    \* the raw body that handler was delivered, if it completes a GET

vars == << sAuthorisationInProgress, gSavedPerAccountSettings, constructed, started,
           pending, mAuthenticating, called, log, delivered, effects, received >>

\* What `received` holds after a handler that completes no GET.
NoBody == << >>

\* One external call of a handler.
Ev(op, arg, val) == [op |-> op, arg |-> arg, val |-> val]

\* gSavedPerAccountSettings.setString(key, value)
setString(settings, key, value) == [settings EXCEPT ![key] = value]

\* The settings after the setString calls among the given calls, in order.
RECURSIVE ApplySets(_, _)
ApplySets(settings, evs) ==
    IF evs = << >> THEN settings
    ELSE ApplySets(IF Head(evs).op = "setString"
                     THEN setString(settings, Head(evs).arg, Head(evs).val)
                     ELSE settings,
                   Tail(evs))

\* The handler the main loop runs, on which attempt, with the values it branches on.
Delivery(a, handler, arg, val) == [attempt |-> a, handler |-> handler, arg |-> arg, val |-> val]

\* The calls as the attempt's log keeps them: operation and target, no value.
Strip(evs) == [i \in 1..Len(evs) |-> Ev(evs[i].op, evs[i].arg, "")]

\* The mark a delivered completion leaves in the attempt's log.
Completion(handler) == Ev(handler, "", "")

Init ==
    /\ sAuthorisationInProgress = FALSE
    /\ gSavedPerAccountSettings \in {NoCredentials, StoredCredentials}
    /\ constructed = 0
    /\ started = {}
    /\ pending = [a \in Attempts |-> "unconstructed"]
    /\ mAuthenticating = [a \in Attempts |-> FALSE]
    /\ called = [a \in Attempts |-> << >>]
    /\ log = [a \in Attempts |-> << >>]
    /\ delivered = Delivery(0, "", "", "")
    /\ effects = << >>
    /\ received = NoBody

\* ~exoFlickrAuth: the flag after the destructor ran with the given value of
\* this->mAuthenticating.
Destructor(auth, flag) == IF auth THEN FALSE ELSE flag

\* checkAuthorisation: the flickr.test.login request.
checkAuthorisation == Ev("request", "flickr.test.login", "")

\* beginAuthorisation: the explanatory notification.
beginAuthorisation == Ev("notification", "ExodusFlickrVerificationExplanation", "")

\* NeedsAuthorisation with `&&` in place of `||`: only a pair with both members
\* empty counts as missing.
NeedsAuthorisation_BothEmpty(settings) ==
    /\ settings["ExodusFlickrToken"] = ""
    /\ settings["ExodusFlickrTokenSecret"] = ""

\* The constructor's test of the stored token and secret.
NeedsAuthorisation(settings) ==
    \/ settings["ExodusFlickrToken"] = ""
    \/ settings["ExodusFlickrTokenSecret"] = ""

\* ConstructDuplicate reporting the rejection to its caller: mCallback(false,
\* LLSD()) before `delete this`.
ConstructDuplicate_ReportsBusy(a) ==
    /\ a = constructed + 1
    /\ a \in Attempts
    /\ sAuthorisationInProgress
    /\ \E indeterminate \in BOOLEAN :
          /\ mAuthenticating' = [mAuthenticating EXCEPT ![a] = indeterminate]
          /\ sAuthorisationInProgress' = IF indeterminate THEN FALSE ELSE sAuthorisationInProgress
    /\ constructed' = a
    /\ pending' = [pending EXCEPT ![a] = "deleted"]
    /\ delivered' = Delivery(a, "exoFlickrAuth", "", "")
    /\ received' = NoBody
    /\ effects' = << Ev("mCallback", "false", "") >>
    /\ called' = [called EXCEPT ![a] = << [success |-> FALSE, payload |-> LLSD] >>]
    /\ UNCHANGED << gSavedPerAccountSettings, started, log >>

\* exoFlickrAuth::exoFlickrAuth on a flag that is already set: `delete this`
\* runs the destructor, which reads mAuthenticating before any code assigned
\* it, so the value read is whatever the allocation held.
ConstructDuplicate(a) ==
    /\ a = constructed + 1
    /\ a \in Attempts
    /\ sAuthorisationInProgress
    /\ \E indeterminate \in BOOLEAN :
          /\ mAuthenticating' = [mAuthenticating EXCEPT ![a] = indeterminate]
          /\ sAuthorisationInProgress' = Destructor(indeterminate, sAuthorisationInProgress)
    /\ constructed' = a
    /\ pending' = [pending EXCEPT ![a] = "deleted"]
    /\ delivered' = Delivery(a, "exoFlickrAuth", "", "")
    /\ received' = NoBody
    /\ effects' = << >>
    /\ UNCHANGED << gSavedPerAccountSettings, started, called, log >>

\* The first call of an attempt that starts, by the constructor's test.
FirstStep(settings) ==
    IF NeedsAuthorisation(settings) THEN beginAuthorisation ELSE checkAuthorisation

\* The continuation a call binds to `this`.
Continuation(ev) ==
    CASE ev = checkAuthorisation -> "checkResult"
      [] ev = beginAuthorisation -> "explanationCallback"
      [] ev = Ev("callbackHttpGetRaw", "request_token", "") -> "gotRequestToken"
      [] ev = Ev("notification", "ExodusFlickrVerificationPrompt", "") -> "gotVerifier"
      [] ev = Ev("callbackHttpGetRaw", "access_token", "") -> "gotAccessToken"

\* exoFlickrAuth::exoFlickrAuth on a clear flag.
ConstructStart(a) ==
    /\ a = constructed + 1
    /\ a \in Attempts
    /\ ~sAuthorisationInProgress
    /\ constructed' = a
    /\ mAuthenticating' = [mAuthenticating EXCEPT ![a] = TRUE]
    /\ sAuthorisationInProgress' = TRUE
    /\ started' = started \cup {a}
    /\ effects' = << FirstStep(gSavedPerAccountSettings) >>
    /\ log' = [log EXCEPT ![a] = Strip(effects')]
    /\ pending' = [pending EXCEPT ![a] = Continuation(FirstStep(gSavedPerAccountSettings))]
    /\ delivered' = Delivery(a, "exoFlickrAuth", "", "")
    /\ received' = NoBody
    /\ UNCHANGED << gSavedPerAccountSettings, called >>

\* exoFlickrAuth::exoFlickrAuth
exoFlickrAuth(a) == ConstructDuplicate(a) \/ ConstructStart(a)

\* mCallback(success, payload): the invocation as `called` records it.
mCallback(success, payload) == [success |-> success, payload |-> payload]

\* The mark an mCallback invocation leaves among a handler's calls.
CallbackEv(success) == Ev("mCallback", IF success THEN "true" ELSE "false", "")

\* `delete this` at the end of a handler of attempt a.
DeleteThis(a) ==
    /\ pending' = [pending EXCEPT ![a] = "deleted"]
    /\ sAuthorisationInProgress' = Destructor(mAuthenticating[a], sAuthorisationInProgress)

\* A handler of attempt a that ends the attempt: the calls it made, the last
\* of them mCallback(success, payload), then `delete this`.
Finish(a, handler, calls, success, payload) ==
    /\ effects' = calls
    /\ log' = [log EXCEPT ![a] = @ \o << Completion(handler) >> \o Strip(calls)]
    /\ gSavedPerAccountSettings' = ApplySets(gSavedPerAccountSettings, calls)
    /\ called' = [called EXCEPT ![a] = Append(@, mCallback(success, payload))]
    /\ DeleteThis(a)

\* A handler of attempt a that issues the next interaction: the calls it made,
\* the last of them binding the next continuation.
Proceed(a, handler, calls) ==
    /\ effects' = calls
    /\ log' = [log EXCEPT ![a] = @ \o << Completion(handler) >> \o Strip(calls)]
    /\ gSavedPerAccountSettings' = ApplySets(gSavedPerAccountSettings, calls)
    /\ pending' = [pending EXCEPT ![a] = Continuation(calls[Len(calls)])]
    /\ UNCHANGED << sAuthorisationInProgress, called >>

\* LoginTestOk without the test of the response's stat.
LoginTestOk_IgnoresStat(success, response) == success

\* LoginTestOk comparing stat with "OK" in the wrong case.
LoginTestOk_WrongCase(success, response) == success /\ asString(response, "stat") = "OK"

\* checkResult's test of the flickr.test.login outcome.
LoginTestOk(success, response) == success /\ asString(response, "stat") = "ok"

\* exoFlickrAuth::checkResult
checkResult(a, success, response) ==
    /\ pending[a] = "checkResult"
    /\ delivered' = Delivery(a, "checkResult", IF success THEN "true" ELSE "false",
                             asString(response, "stat"))
    /\ received' = NoBody
    /\ IF ~LoginTestOk(success, response)
         THEN Proceed(a, "checkResult", << beginAuthorisation >>)
         ELSE Finish(a, "checkResult", << CallbackEv(TRUE) >>, TRUE, LLSD)
    /\ UNCHANGED << constructed, started, mAuthenticating >>

\* ExplanationAccepted testing for "not the second button" instead of "the first".
ExplanationAccepted_NotCancel(option) == option # 1

\* explanationCallback's test of the selected option: 0 is OK.
ExplanationAccepted(option) == option = 0

\* explanationCallback presenting the verifier prompt together with the
\* request-token request instead of waiting for the response.
explanationCallback_AlsoPrompts(a, option) ==
    /\ pending[a] = "explanationCallback"
    /\ delivered' = Delivery(a, "explanationCallback", ToString(option), "")
    /\ received' = NoBody
    /\ IF ExplanationAccepted(option)
         THEN Proceed(a, "explanationCallback",
                      << Ev("setString", "ExodusFlickrToken", ""),
                         Ev("setString", "ExodusFlickrTokenSecret", ""),
                         Ev("notification", "ExodusFlickrVerificationPrompt", ""),
                         Ev("callbackHttpGetRaw", "request_token", "") >>)
         ELSE Finish(a, "explanationCallback", << CallbackEv(FALSE) >>, FALSE, LLSD)
    /\ UNCHANGED << constructed, started, mAuthenticating >>

\* exoFlickrAuth::explanationCallback
explanationCallback(a, option) ==
    /\ pending[a] = "explanationCallback"
    /\ delivered' = Delivery(a, "explanationCallback", ToString(option), "")
    /\ received' = NoBody
    /\ IF ExplanationAccepted(option)
         THEN Proceed(a, "explanationCallback",
                      << Ev("setString", "ExodusFlickrToken", ""),
                         Ev("setString", "ExodusFlickrTokenSecret", ""),
                         Ev("callbackHttpGetRaw", "request_token", "") >>)
         ELSE Finish(a, "explanationCallback", << CallbackEv(FALSE) >>, FALSE, LLSD)
    /\ UNCHANGED << constructed, started, mAuthenticating >>

\* gotRequestToken without the test of `success`: it goes on to leg 2 whatever
\* the status was.
gotRequestToken_IgnoresStatus(a, aData) ==
    LET params  == exoFlickrAuthResponse(aData).params
        token   == asString(params, "oauth_token")
        secret  == asString(params, "oauth_token_secret")
    IN  /\ pending[a] = "gotRequestToken"
        /\ delivered' = Delivery(a, "gotRequestToken", aData.status, "")
        /\ received' = aData.raw
        /\ Proceed(a, "gotRequestToken",
                   << Ev("setString", "ExodusFlickrToken", token),
                      Ev("setString", "ExodusFlickrTokenSecret", secret),
                      Ev("spawnWebBrowser", "oauth_token", token),
                      Ev("notification", "ExodusFlickrVerificationPrompt", "") >>)
        /\ UNCHANGED << constructed, started, mAuthenticating >>

\* gotRequestToken treating a response without a token as a failed request.
gotRequestToken_RejectsEmpty(a, aData) ==
    LET success == exoFlickrAuthResponse(aData).success
        params  == exoFlickrAuthResponse(aData).params
        token   == asString(params, "oauth_token")
        secret  == asString(params, "oauth_token_secret")
    IN  /\ pending[a] = "gotRequestToken"
        /\ delivered' = Delivery(a, "gotRequestToken", aData.status, "")
        /\ received' = aData.raw
        /\ IF ~success \/ token = ""
             THEN Finish(a, "gotRequestToken", << CallbackEv(FALSE) >>, FALSE, LLSD)
             ELSE Proceed(a, "gotRequestToken",
                          << Ev("setString", "ExodusFlickrToken", token),
                             Ev("setString", "ExodusFlickrTokenSecret", secret),
                             Ev("spawnWebBrowser", "oauth_token", token),
                             Ev("notification", "ExodusFlickrVerificationPrompt", "") >>)
        /\ UNCHANGED << constructed, started, mAuthenticating >>

\* gotRequestToken opening the browser before it stores the token and secret.
gotRequestToken_BrowserFirst(a, aData) ==
    LET success == exoFlickrAuthResponse(aData).success
        params  == exoFlickrAuthResponse(aData).params
        token   == asString(params, "oauth_token")
        secret  == asString(params, "oauth_token_secret")
    IN  /\ pending[a] = "gotRequestToken"
        /\ delivered' = Delivery(a, "gotRequestToken", aData.status, "")
        /\ received' = aData.raw
        /\ IF ~success
             THEN Finish(a, "gotRequestToken", << CallbackEv(FALSE) >>, FALSE, LLSD)
             ELSE Proceed(a, "gotRequestToken",
                          << Ev("spawnWebBrowser", "oauth_token", token),
                             Ev("setString", "ExodusFlickrToken", token),
                             Ev("setString", "ExodusFlickrTokenSecret", secret),
                             Ev("notification", "ExodusFlickrVerificationPrompt", "") >>)
        /\ UNCHANGED << constructed, started, mAuthenticating >>

\* exoFlickrAuth::gotRequestToken, reached through exoFlickrAuthResponse
gotRequestToken(a, aData) ==
    LET success == exoFlickrAuthResponse(aData).success
        params  == exoFlickrAuthResponse(aData).params
        token   == asString(params, "oauth_token")
        secret  == asString(params, "oauth_token_secret")
    IN  /\ pending[a] = "gotRequestToken"
        /\ delivered' = Delivery(a, "gotRequestToken", aData.status, "")
        /\ received' = aData.raw
        /\ IF ~success
             THEN Finish(a, "gotRequestToken", << CallbackEv(FALSE) >>, FALSE, LLSD)
             ELSE Proceed(a, "gotRequestToken",
                          << Ev("setString", "ExodusFlickrToken", token),
                             Ev("setString", "ExodusFlickrTokenSecret", secret),
                             Ev("spawnWebBrowser", "oauth_token", token),
                             Ev("notification", "ExodusFlickrVerificationPrompt", "") >>)
        /\ UNCHANGED << constructed, started, mAuthenticating >>

\* VerifierCancelled testing for the first button instead of the second.
VerifierCancelled_FirstButton(option) == option = 0

\* gotVerifier's test of the selected option: 1 is Cancel.
VerifierCancelled(option) == option = 1

\* gotVerifier whose Cancel branch deletes the attempt without mCallback.
gotVerifier_SilentCancel(a, option) ==
    /\ pending[a] = "gotVerifier"
    /\ delivered' = Delivery(a, "gotVerifier", ToString(option), "")
    /\ received' = NoBody
    /\ IF VerifierCancelled(option)
         THEN /\ effects' = << >>
              /\ log' = [log EXCEPT ![a] = Append(@, Completion("gotVerifier"))]
              /\ DeleteThis(a)
              /\ UNCHANGED << gSavedPerAccountSettings, called >>
         ELSE Proceed(a, "gotVerifier", << Ev("callbackHttpGetRaw", "access_token", "") >>)
    /\ UNCHANGED << constructed, started, mAuthenticating >>

\* gotVerifier whose Cancel branch returns after mCallback without `delete this`.
gotVerifier_LeaksOnCancel(a, option) ==
    /\ pending[a] = "gotVerifier"
    /\ delivered' = Delivery(a, "gotVerifier", ToString(option), "")
    /\ received' = NoBody
    /\ IF VerifierCancelled(option)
         THEN /\ effects' = << CallbackEv(FALSE) >>
              /\ log' = [log EXCEPT ![a] = @ \o << Completion("gotVerifier"), CallbackEv(FALSE) >>]
              /\ called' = [called EXCEPT ![a] = Append(@, mCallback(FALSE, LLSD))]
              /\ pending' = [pending EXCEPT ![a] = "leaked"]
              /\ UNCHANGED << gSavedPerAccountSettings, sAuthorisationInProgress >>
         ELSE Proceed(a, "gotVerifier", << Ev("callbackHttpGetRaw", "access_token", "") >>)
    /\ UNCHANGED << constructed, started, mAuthenticating >>

\* gotVerifier whose Cancel branch clears the stored request token and secret.
gotVerifier_ClearsOnCancel(a, option) ==
    /\ pending[a] = "gotVerifier"
    /\ delivered' = Delivery(a, "gotVerifier", ToString(option), "")
    /\ received' = NoBody
    /\ IF VerifierCancelled(option)
         THEN Finish(a, "gotVerifier",
                     << Ev("setString", "ExodusFlickrToken", ""),
                        Ev("setString", "ExodusFlickrTokenSecret", ""),
                        CallbackEv(FALSE) >>, FALSE, LLSD)
         ELSE Proceed(a, "gotVerifier", << Ev("callbackHttpGetRaw", "access_token", "") >>)
    /\ UNCHANGED << constructed, started, mAuthenticating >>

\* exoFlickrAuth::gotVerifier
gotVerifier(a, option) ==
    /\ pending[a] = "gotVerifier"
    /\ delivered' = Delivery(a, "gotVerifier", ToString(option), "")
    /\ received' = NoBody
    /\ IF VerifierCancelled(option)
         THEN Finish(a, "gotVerifier", << CallbackEv(FALSE) >>, FALSE, LLSD)
         ELSE Proceed(a, "gotVerifier", << Ev("callbackHttpGetRaw", "access_token", "") >>)
    /\ UNCHANGED << constructed, started, mAuthenticating >>

\* The calls of gotAccessToken's success branch.
AccessTokenStores(params) ==
    << Ev("setString", "ExodusFlickrToken", asString(params, "oauth_token")),
       Ev("setString", "ExodusFlickrTokenSecret", asString(params, "oauth_token_secret")),
       Ev("setString", "ExodusFlickrFullName", asString(params, "fullname")),
       Ev("setString", "ExodusFlickrNSID", asString(params, "user_nsid")),
       Ev("setString", "ExodusFlickrUsername", asString(params, "username")) >>

\* gotAccessToken invoking mCallback before it stores what it got back.
gotAccessToken_CallbackFirst(a, aData) ==
    LET success == exoFlickrAuthResponse(aData).success
        params  == exoFlickrAuthResponse(aData).params
    IN  /\ pending[a] = "gotAccessToken"
        /\ delivered' = Delivery(a, "gotAccessToken", aData.status, "")
        /\ received' = aData.raw
        /\ IF success
             THEN Finish(a, "gotAccessToken",
                         << CallbackEv(TRUE) >> \o AccessTokenStores(params), TRUE, params)
             ELSE Finish(a, "gotAccessToken",
                         << Ev("notification", "ExodusFlickrVerificationFailed", ""),
                            CallbackEv(FALSE) >>,
                         FALSE, params)
        /\ UNCHANGED << constructed, started, mAuthenticating >>

\* gotAccessToken reporting a failure with LLSD() instead of the response.
gotAccessToken_DropsPayload(a, aData) ==
    LET success == exoFlickrAuthResponse(aData).success
        params  == exoFlickrAuthResponse(aData).params
    IN  /\ pending[a] = "gotAccessToken"
        /\ delivered' = Delivery(a, "gotAccessToken", aData.status, "")
        /\ received' = aData.raw
        /\ IF success
             THEN Finish(a, "gotAccessToken",
                         AccessTokenStores(params) \o << CallbackEv(TRUE) >>, TRUE, params)
             ELSE Finish(a, "gotAccessToken",
                         << Ev("notification", "ExodusFlickrVerificationFailed", ""),
                            CallbackEv(FALSE) >>,
                         FALSE, LLSD)
        /\ UNCHANGED << constructed, started, mAuthenticating >>

\* exoFlickrAuth::gotAccessToken, reached through exoFlickrAuthResponse
gotAccessToken(a, aData) ==
    LET success == exoFlickrAuthResponse(aData).success
        params  == exoFlickrAuthResponse(aData).params
    IN  /\ pending[a] = "gotAccessToken"
        /\ delivered' = Delivery(a, "gotAccessToken", aData.status, "")
        /\ received' = aData.raw
        /\ IF success
             THEN Finish(a, "gotAccessToken",
                         << Ev("setString", "ExodusFlickrToken", asString(params, "oauth_token")),
                            Ev("setString", "ExodusFlickrTokenSecret", asString(params, "oauth_token_secret")),
                            Ev("setString", "ExodusFlickrFullName", asString(params, "fullname")),
                            Ev("setString", "ExodusFlickrNSID", asString(params, "user_nsid")),
                            Ev("setString", "ExodusFlickrUsername", asString(params, "username")),
                            CallbackEv(TRUE) >>,
                         TRUE, params)
             ELSE Finish(a, "gotAccessToken",
                         << Ev("notification", "ExodusFlickrVerificationFailed", ""),
                            CallbackEv(FALSE) >>,
                         FALSE, params)
        /\ UNCHANGED << constructed, started, mAuthenticating >>

\* A completed HTTP GET as FSCoreHttpUtil::callbackHttpGetRaw reports it.
HttpResults(bodies) == [status : HttpStatuses, raw : bodies]

Next ==
    \/ \E a \in Attempts : exoFlickrAuth(a)
    \/ \E a \in Attempts, result \in LoginTestResults :
          checkResult(a, result.success, result.response)
    \/ \E a \in Attempts, option \in Options : explanationCallback(a, option)
    \/ \E a \in Attempts, aData \in HttpResults(RequestTokenBodies) : gotRequestToken(a, aData)
    \/ \E a \in Attempts, option \in Options : gotVerifier(a, option)
    \/ \E a \in Attempts, aData \in HttpResults(AccessTokenBodies) : gotAccessToken(a, aData)

Spec == Init /\ [][Next]_vars

\* The main loop delivers every completion it was asked for: each request
\* that was issued and each prompt that was presented eventually calls the
\* continuation bound to it.
Fairness ==
    \A a \in Attempts :
        /\ WF_vars(\E result \in LoginTestResults :
                      checkResult(a, result.success, result.response))
        /\ WF_vars(\E option \in Options : explanationCallback(a, option))
        /\ WF_vars(\E aData \in HttpResults(RequestTokenBodies) : gotRequestToken(a, aData))
        /\ WF_vars(\E option \in Options : gotVerifier(a, option))
        /\ WF_vars(\E aData \in HttpResults(AccessTokenBodies) : gotAccessToken(a, aData))

FairSpec == Spec /\ Fairness

\* ---- the phases of section 4.1, read off the bound continuation ----
Validating(a) == pending[a] = "checkResult"
AwaitingExplanationConsent(a) == pending[a] = "explanationCallback"
AwaitingRequestToken(a) == pending[a] = "gotRequestToken"
AwaitingUserAuthorization(a) == pending[a] = "gotVerifier"
AwaitingAccessToken(a) == pending[a] = "gotAccessToken"
Terminal(a) == pending[a] = "deleted"
\* a started attempt that has not reached Terminal
Active(a) == a \in started /\ ~Terminal(a)
\* an attempt rejected at construction
Rejected(a) == Terminal(a) /\ a \notin started

\* ---- reading the logs ----
Range(seq) == {seq[i] : i \in 1..Len(seq)}
\* the positions of the log at which an HTTP request is issued
HttpPositions(l) == {i \in 1..Len(l) : l[i].op \in {"request", "callbackHttpGetRaw"}}
\* the positions of the log at which a request-token or access-token request is issued
TokenRequestPositions(l) == {i \in 1..Len(l) : l[i].op = "callbackHttpGetRaw"}
\* the positions of the log at which the given completion was delivered
CompletionPositions(l, handler) == {i \in 1..Len(l) : l[i] = Completion(handler)}
Token == gSavedPerAccountSettings["ExodusFlickrToken"]
TokenSecret == gSavedPerAccountSettings["ExodusFlickrTokenSecret"]
\* the step just taken is the construction of a duplicate
DuplicateJustConstructed(a) ==
    delivered.handler = "exoFlickrAuth" /\ delivered.attempt = a /\ Rejected(a)

\* C1: at most one attempt is started and not yet Terminal, in every reachable state.
C1_SingleFlight == Cardinality({a \in Attempts : Active(a)}) <= 1

\* C2: constructing (and at once destroying) a duplicate while the flag is set
\* leaves sAuthorisationInProgress true: the destructor of an attempt whose
\* constructor never set mAuthenticating does not clear the flag.
C2_DuplicateKeepsFlag ==
    \A a \in Attempts : DuplicateJustConstructed(a) => sAuthorisationInProgress

\* C3: a construction while the flag is set invokes no callback, writes no
\* setting, issues no request, prompt or browser open, and leaves every other
\* attempt's pending continuation and log as they were.
C3_DuplicateHasNoEffect ==
    [][\A a \in Attempts :
          (pending[a] = "unconstructed" /\ pending'[a] # "unconstructed"
              /\ sAuthorisationInProgress)
          => /\ called' = called
             /\ gSavedPerAccountSettings' = gSavedPerAccountSettings
             /\ log' = log
             /\ effects' = << >>
             /\ \A b \in Attempts \ {a} : pending'[b] = pending[b]]_vars

\* C3 witness: a duplicate has just been constructed while another attempt is
\* waiting for its completion.
C3_Witness ==
    \E a, b \in Attempts : DuplicateJustConstructed(a) /\ Active(b) /\ log[b] # << >>

\* C4: mCallback has been invoked exactly once for every started attempt that
\* reached Terminal, and not at all for an attempt that is not yet Terminal or
\* that was rejected as a duplicate.
C4_CallbackExactlyOnce ==
    \A a \in Attempts :
        /\ (a \in started /\ Terminal(a)) => Len(called[a]) = 1
        /\ ~(a \in started /\ Terminal(a)) => called[a] = << >>

\* C4 witness: one attempt ran to Terminal and was called back, another was
\* rejected as a duplicate, a third is still waiting.
C4_Witness ==
    \E a, b, c \in Attempts :
        /\ a \in started /\ Terminal(a) /\ Len(called[a]) = 1
        /\ Rejected(b)
        /\ Active(c)

\* C5: the flag is never false while a started attempt is not Terminal, and
\* the step that takes a started attempt to Terminal leaves the flag false.
C5_FlagHeldUntilTerminal ==
    /\ \A a \in Attempts : Active(a) => sAuthorisationInProgress
    /\ \A a \in started :
          (Terminal(a) /\ delivered.attempt = a) => ~sAuthorisationInProgress

\* C6: the stored token and secret are both empty or both non-empty in every
\* state between two handlers, whatever the responses were.
C6_TokenPairConsistent == (Token = "") <=> (TokenSecret = "")

\* C7: an attempt constructed while the stored token or secret is empty starts
\* with the explanatory prompt, and such an attempt issues no HTTP request
\* before the answer to that prompt was delivered.
C7_ConsentBeforeNetwork ==
    [][\A a \in Attempts :
          /\ (a \notin started /\ a \in started' /\ (Token = "" \/ TokenSecret = ""))
             => (log'[a] = << beginAuthorisation >> /\ AwaitingExplanationConsent(a)')
          /\ (log'[a] # << >> /\ log'[a][1] = beginAuthorisation)
             => \A i \in HttpPositions(log'[a]) :
                   \E j \in CompletionPositions(log'[a], "explanationCallback") : j < i]_vars

\* C7 witness: an attempt that started on the pair an abandoned handshake left
\* (an empty member in it) has been answered OK and has its request-token
\* request out.
C7_Witness ==
    \E a \in Attempts :
        /\ AwaitingRequestToken(a)
        /\ log[a][1] = beginAuthorisation
        /\ \E b \in Attempts :
              /\ b < a /\ Terminal(b)
              /\ Ev("spawnWebBrowser", "oauth_token", "") \in Range(log[b])
              /\ Completion("gotAccessToken") \notin Range(log[b])

\* C8: when checkResult is delivered a transport failure, or a response whose
\* stat is not "ok", the attempt goes from Validating to
\* AwaitingExplanationConsent by presenting the explanatory prompt, its
\* callback is not invoked and the step leaves the flag as it was.
C8_FailedProbeReauthorises ==
    [][(delivered'.handler = "checkResult"
           /\ ~(delivered'.arg = "true" /\ delivered'.val = "ok"))
       => /\ Validating(delivered'.attempt)
          /\ pending'[delivered'.attempt] = "explanationCallback"
          /\ effects' = << beginAuthorisation >>
          /\ called'[delivered'.attempt] = << >>
          /\ sAuthorisationInProgress' = sAuthorisationInProgress]_vars

\* C8 witness: the probe has just come back HTTP-ok with a stat that is not
\* "ok", and the attempt is waiting for the explanatory prompt with the flag set.
C8_Witness ==
    /\ delivered.handler = "checkResult"
    /\ delivered.arg = "true" /\ delivered.val = "fail"
    /\ AwaitingExplanationConsent(delivered.attempt)
    /\ sAuthorisationInProgress

\* an attempt that ended with access-token success and stored a usable pair
AccessTokenSucceeded(b) ==
    /\ b \in started /\ Terminal(b)
    /\ Completion("gotAccessToken") \in Range(log[b])
    /\ called[b] # << >> /\ called[b][1].success
    /\ asString(called[b][1].payload, "oauth_token") # ""
    /\ asString(called[b][1].payload, "oauth_token_secret") # ""

\* the whole log of an attempt that was validated by its probe
ValidatedLog == << checkAuthorisation, Completion("checkResult"), CallbackEv(TRUE) >>

\* C9: after an attempt that ended with access-token success, an attempt whose
\* probe comes back HTTP-ok with stat "ok" reaches Terminal with
\* mCallback(true, LLSD()) as its only call besides the probe; neither its
\* construction nor its checkResult writes a setting.
C9_RoundTrip ==
    [][\A a \in Attempts :
          (\E b \in Attempts : b < a /\ AccessTokenSucceeded(b))
          => /\ (a \notin started /\ a \in started')
                => gSavedPerAccountSettings' = gSavedPerAccountSettings
             /\ (delivered'.attempt = a /\ delivered'.handler = "checkResult"
                    /\ delivered'.arg = "true" /\ delivered'.val = "ok")
                => /\ Terminal(a)'
                   /\ called'[a] = << mCallback(TRUE, LLSD) >>
                   /\ log'[a] = ValidatedLog
                   /\ gSavedPerAccountSettings' = gSavedPerAccountSettings]_vars

\* C9 witness: the attempt after a successful handshake has just been
\* validated by its probe, with the handshake's credentials still stored.
C9_Witness ==
    \E a, b \in Attempts :
        /\ b < a /\ AccessTokenSucceeded(b)
        /\ delivered.attempt = a /\ delivered.handler = "checkResult"
        /\ Terminal(a) /\ log[a] = ValidatedLog
        /\ Token = asString(called[b][1].payload, "oauth_token")
        /\ TokenSecret = asString(called[b][1].payload, "oauth_token_secret")

\* C10: when explanationCallback is delivered an option other than 0, the
\* attempt is Terminal with mCallback(false, LLSD()) as its only callback and
\* has issued no request-token or access-token request; a Terminal attempt
\* never issues anything afterwards.
C10_DeclineIssuesNothing ==
    [][/\ (delivered'.handler = "explanationCallback" /\ delivered'.arg # "0")
          => /\ pending'[delivered'.attempt] = "deleted"
             /\ called'[delivered'.attempt] = << mCallback(FALSE, LLSD) >>
             /\ effects' = << CallbackEv(FALSE) >>
             /\ TokenRequestPositions(log'[delivered'.attempt]) = {}
       /\ \A a \in Attempts : Terminal(a) => (Terminal(a)' /\ log'[a] = log[a])]_vars

\* C10 witness: the explanatory prompt has just been dismissed without a
\* button (option -1) and the attempt is Terminal.
C10_Witness ==
    /\ delivered.handler = "explanationCallback"
    /\ delivered.arg = "-1"
    /\ Terminal(delivered.attempt)

\* ---- reading the delivered bodies ----
\* the value the body gives the key (the empty string when it gives none)
FieldOf(raw, key) ==
    IF \E i \in 1..Len(raw) : raw[i][1] = key /\ Len(raw[i]) = 2
    THEN raw[CHOOSE i \in 1..Len(raw) : raw[i][1] = key /\ Len(raw[i]) = 2][2]
    ELSE ""
\* the payload has exactly the keys of the body, each with the body's value;
\* a body that is no list of pairs gives the payload without keys
DecodesTo(raw, payload) ==
    IF \A i \in 1..Len(raw) : Len(raw[i]) = 2
    THEN /\ DOMAIN payload = {raw[i][1] : i \in 1..Len(raw)}
         /\ \A i \in 1..Len(raw) : payload[raw[i][1]] = raw[i][2]
    ELSE DOMAIN payload = {}
\* the body oauth_token=ABC&oauth_token_secret=XYZ
RequestTokenBody == << <<"oauth_token", "ABC">>, <<"oauth_token_secret", "XYZ">> >>
\* the body oauth_token=T2&oauth_token_secret=S2&fullname=...&user_nsid=123&username=jane
AccessTokenBody ==
    << <<"oauth_token", "T2">>, <<"oauth_token_secret", "S2">>,
       <<"fullname", "Jane Doe">>, <<"user_nsid", "123">>, <<"username", "jane">> >>
\* the step being taken delivers the handler with the first input
Delivers(d, handler, arg) == d.handler = handler /\ d.arg = arg

\* C11: when gotRequestToken is delivered HTTP_OK, it stores the response's
\* oauth_token and oauth_token_secret as Token and TokenSecret, then opens the
\* browser on that same token, then presents the verifier prompt, in that order.
C11_StoredBeforeBrowser ==
    [][Delivers(delivered', "gotRequestToken", "HTTP_OK")
       => /\ effects' =
                << Ev("setString", "ExodusFlickrToken", FieldOf(received', "oauth_token")),
                   Ev("setString", "ExodusFlickrTokenSecret", FieldOf(received', "oauth_token_secret")),
                   Ev("spawnWebBrowser", "oauth_token", FieldOf(received', "oauth_token")),
                   Ev("notification", "ExodusFlickrVerificationPrompt", "") >>
          /\ gSavedPerAccountSettings'["ExodusFlickrToken"] = FieldOf(received', "oauth_token")
          /\ gSavedPerAccountSettings'["ExodusFlickrTokenSecret"] =
                FieldOf(received', "oauth_token_secret")]_vars

\* C11 witness: the body oauth_token=ABC&oauth_token_secret=XYZ has just been
\* delivered with HTTP_OK; the store holds ABC and XYZ and the attempt waits
\* for the verifier.
C11_Witness ==
    /\ Delivers(delivered, "gotRequestToken", "HTTP_OK")
    /\ received = RequestTokenBody
    /\ Token = "ABC" /\ TokenSecret = "XYZ"
    /\ AwaitingUserAuthorization(delivered.attempt)

\* C12: when gotAccessToken is delivered HTTP_OK, it stores the five fields of
\* the decoded response and then invokes mCallback(true, payload) once, the
\* payload being the decoded response; afterwards the five settings equal the
\* payload's fields.
C12_AccessTokenPersisted ==
    [][Delivers(delivered', "gotAccessToken", "HTTP_OK")
       => \E payload \in {c.payload : c \in Range(called'[delivered'.attempt])} :
             /\ called'[delivered'.attempt] = << mCallback(TRUE, payload) >>
             /\ DecodesTo(received', payload)
             /\ (received' = AccessTokenBody
                   => payload = [oauth_token |-> "T2", oauth_token_secret |-> "S2",
                                 fullname |-> "Jane Doe", user_nsid |-> "123",
                                 username |-> "jane"])
             /\ effects' =
                   << Ev("setString", "ExodusFlickrToken", asString(payload, "oauth_token")),
                      Ev("setString", "ExodusFlickrTokenSecret", asString(payload, "oauth_token_secret")),
                      Ev("setString", "ExodusFlickrFullName", asString(payload, "fullname")),
                      Ev("setString", "ExodusFlickrNSID", asString(payload, "user_nsid")),
                      Ev("setString", "ExodusFlickrUsername", asString(payload, "username")),
                      CallbackEv(TRUE) >>
             /\ gSavedPerAccountSettings' =
                   [k \in Keys |->
                      CASE k = "ExodusFlickrToken" -> asString(payload, "oauth_token")
                        [] k = "ExodusFlickrTokenSecret" -> asString(payload, "oauth_token_secret")
                        [] k = "ExodusFlickrFullName" -> asString(payload, "fullname")
                        [] k = "ExodusFlickrNSID" -> asString(payload, "user_nsid")
                        [] k = "ExodusFlickrUsername" -> asString(payload, "username")]]_vars

\* C12 witness: the five-field body has just been delivered with HTTP_OK to
\* an attempt that started with nothing stored, and the store holds its fields.
C12_Witness ==
    /\ Delivers(delivered, "gotAccessToken", "HTTP_OK")
    /\ received = AccessTokenBody
    /\ log[delivered.attempt][1] = beginAuthorisation
    /\ Token = "T2" /\ TokenSecret = "S2"
    /\ gSavedPerAccountSettings["ExodusFlickrFullName"] = "Jane Doe"
    /\ gSavedPerAccountSettings["ExodusFlickrNSID"] = "123"
    /\ gSavedPerAccountSettings["ExodusFlickrUsername"] = "jane"

\* C13: every change of the flag is a step of an attempt that set the flag
\* itself, and every write to the settings is a step of such an attempt taken
\* while the flag is true.
C13_OnlyTheActiveAttemptMutates ==
    [][/\ (sAuthorisationInProgress' # sAuthorisationInProgress)
          => delivered'.attempt \in started'
       /\ (gSavedPerAccountSettings' # gSavedPerAccountSettings)
          => (delivered'.attempt \in started /\ sAuthorisationInProgress)]_vars

\* ---- the interactions that bind a continuation, and their completions ----
Binding == { checkAuthorisation, beginAuthorisation,
             Ev("callbackHttpGetRaw", "request_token", ""),
             Ev("notification", "ExodusFlickrVerificationPrompt", ""),
             Ev("callbackHttpGetRaw", "access_token", "") }
Handlers == { "checkResult", "explanationCallback", "gotRequestToken", "gotVerifier",
              "gotAccessToken" }
\* how many interactions of the log are issued and not yet completed
Outstanding(l) ==
    Cardinality({i \in 1..Len(l) : l[i] \in Binding})
      - Cardinality({i \in 1..Len(l) : l[i].op \in Handlers})
\* the positions of the call in the log
Positions(l, ev) == {i \in 1..Len(l) : l[i] = ev}
\* every occurrence of the later call comes after an occurrence of the earlier
Precedes(l, earlier, later) ==
    \A j \in Positions(l, later) : \E i \in Positions(l, earlier) : i < j

\* C14: a started attempt has exactly one interaction outstanding while it is
\* not Terminal (never two), none once it is; no interaction is issued twice;
\* and the legs follow one another: explanatory prompt, its answer,
\* request-token request, its response, browser and verifier prompt, the
\* verifier answer, access-token request.
C14_OneLegAtATime ==
    \A a \in started :
        LET l == log[a] IN
        /\ Active(a) => Outstanding(l) = 1
        /\ Terminal(a) => Outstanding(l) = 0
        /\ \A n \in 0..Len(l) : Outstanding(SubSeq(l, 1, n)) \in {0, 1}
        /\ \A ev \in Binding : Cardinality(Positions(l, ev)) <= 1
        /\ \A h \in Handlers : Cardinality(Positions(l, Completion(h))) <= 1
        /\ Precedes(l, beginAuthorisation, Completion("explanationCallback"))
        /\ Precedes(l, Completion("explanationCallback"),
                    Ev("callbackHttpGetRaw", "request_token", ""))
        /\ Precedes(l, Ev("callbackHttpGetRaw", "request_token", ""),
                    Completion("gotRequestToken"))
        /\ Precedes(l, Completion("gotRequestToken"), Ev("spawnWebBrowser", "oauth_token", ""))
        /\ Precedes(l, Completion("gotRequestToken"),
                    Ev("notification", "ExodusFlickrVerificationPrompt", ""))
        /\ Precedes(l, Ev("notification", "ExodusFlickrVerificationPrompt", ""),
                    Completion("gotVerifier"))
        /\ Precedes(l, Completion("gotVerifier"), Ev("callbackHttpGetRaw", "access_token", ""))
        /\ Precedes(l, Ev("callbackHttpGetRaw", "access_token", ""),
                    Completion("gotAccessToken"))

\* C14 witness: an attempt that went through the probe and all three legs
\* waits for the access-token response.
C14_Witness ==
    \E a \in started :
        /\ AwaitingAccessToken(a)
        /\ log[a][1] = checkAuthorisation

\* C15: when gotAccessToken is delivered a failed request, it presents the
\* failure notice, invokes mCallback(false, payload) with the decoded
\* response, deletes the attempt and writes no setting.
C15_AccessTokenFailure ==
    [][Delivers(delivered', "gotAccessToken", "HTTP_ERROR")
       => /\ effects' = << Ev("notification", "ExodusFlickrVerificationFailed", ""),
                           CallbackEv(FALSE) >>
          /\ Len(called'[delivered'.attempt]) = 1
          /\ ~called'[delivered'.attempt][1].success
          /\ DecodesTo(received', called'[delivered'.attempt][1].payload)
          /\ pending'[delivered'.attempt] = "deleted"
          /\ gSavedPerAccountSettings' = gSavedPerAccountSettings]_vars

\* C15 witness: a failed access-token request whose body had fields has just
\* been delivered, and the callback got those fields.
C15_Witness ==
    /\ Delivers(delivered, "gotAccessToken", "HTTP_ERROR")
    /\ received = AccessTokenBody
    /\ Terminal(delivered.attempt)
    /\ asString(called[delivered.attempt][1].payload, "username") = "jane"
    /\ Token # "T2"

\* a Terminal attempt stays Terminal and issues nothing more
TerminalIsFinal == \A a \in Attempts : Terminal(a) => (Terminal(a)' /\ log'[a] = log[a])

\* C16: when gotRequestToken is delivered a failed request, the attempt is
\* deleted with mCallback(false, LLSD()) as its only call; it has opened no
\* browser, presented no verifier prompt, issued the request-token request
\* once and no access-token request, and issues nothing afterwards.
C16_RequestTokenFailure ==
    [][/\ Delivers(delivered', "gotRequestToken", "HTTP_ERROR")
          => LET l == log'[delivered'.attempt] IN
             /\ effects' = << CallbackEv(FALSE) >>
             /\ called'[delivered'.attempt] = << mCallback(FALSE, LLSD) >>
             /\ pending'[delivered'.attempt] = "deleted"
             /\ Positions(l, Ev("spawnWebBrowser", "oauth_token", "")) = {}
             /\ Positions(l, Ev("notification", "ExodusFlickrVerificationPrompt", "")) = {}
             /\ Cardinality(TokenRequestPositions(l)) = 1
             /\ gSavedPerAccountSettings' = gSavedPerAccountSettings
       /\ TerminalIsFinal]_vars

\* C16 witness: a failed request-token request has just been delivered and
\* the attempt is Terminal.
C16_Witness ==
    /\ Delivers(delivered, "gotRequestToken", "HTTP_ERROR")
    /\ Terminal(delivered.attempt)
    /\ received = RequestTokenBody

\* C17: when gotVerifier is delivered option 1 (Cancel), the attempt is
\* deleted with mCallback(false, LLSD()) as its only call and has issued no
\* access-token request; the access-token request is issued only by gotVerifier
\* delivered another option.
C17_VerifierCancel ==
    [][/\ Delivers(delivered', "gotVerifier", "1")
          => /\ effects' = << CallbackEv(FALSE) >>
             /\ called'[delivered'.attempt] = << mCallback(FALSE, LLSD) >>
             /\ pending'[delivered'.attempt] = "deleted"
             /\ Positions(log'[delivered'.attempt],
                          Ev("callbackHttpGetRaw", "access_token", "")) = {}
       /\ (Ev("callbackHttpGetRaw", "access_token", "") \in Range(effects'))
          => (delivered'.handler = "gotVerifier" /\ delivered'.arg # "1")
       /\ \A a \in Attempts :
             (Terminal(a) /\ Completion("gotAccessToken") \notin Range(log[a]))
             => Positions(log'[a], Ev("callbackHttpGetRaw", "access_token", "")) = {}]_vars

\* C17 witness: the verifier prompt has just been cancelled and the attempt
\* is Terminal.
C17_Witness ==
    /\ Delivers(delivered, "gotVerifier", "1")
    /\ Terminal(delivered.attempt)
    /\ called[delivered.attempt] = << mCallback(FALSE, LLSD) >>

\* C18: a body that is no list of key=value pairs, delivered with HTTP_OK, is
\* an empty payload and does not end the attempt by itself: gotRequestToken
\* stores an empty token and secret and goes on to wait for the verifier, and
\* gotAccessToken ends the attempt with mCallback(true, LLSD()).
C18_MalformedBodyIsEmptyPayload ==
    [][/\ (Delivers(delivered', "gotRequestToken", "HTTP_OK") /\ received' = Malformed)
          => /\ pending'[delivered'.attempt] = "gotVerifier"
             /\ called'[delivered'.attempt] = << >>
             /\ gSavedPerAccountSettings'["ExodusFlickrToken"] = ""
             /\ gSavedPerAccountSettings'["ExodusFlickrTokenSecret"] = ""
       /\ (Delivers(delivered', "gotAccessToken", "HTTP_OK") /\ received' = Malformed)
          => /\ pending'[delivered'.attempt] = "deleted"
             /\ called'[delivered'.attempt] = << mCallback(TRUE, LLSD) >>]_vars

\* C18 witness: an unparsable access-token body has just been delivered with
\* HTTP_OK and the attempt ended with mCallback(true, LLSD()).
C18_Witness ==
    /\ Delivers(delivered, "gotAccessToken", "HTTP_OK")
    /\ received = Malformed
    /\ called[delivered.attempt] = << mCallback(TRUE, LLSD) >>

\* C19: when every issued request and every presented prompt eventually
\* delivers its completion, every started attempt eventually is Terminal and
\* a set flag eventually is false again, after which a construction starts a
\* new attempt; no handler is delivered twice to one attempt.
C19_EveryAttemptEnds ==
    /\ \A a \in Attempts : (Active(a) ~> Terminal(a))
    /\ (sAuthorisationInProgress ~> ~sAuthorisationInProgress)
    /\ [](\A a \in Attempts : \A h \in Handlers :
             Cardinality(Positions(log[a], Completion(h))) <= 1)
    /\ []((~sAuthorisationInProgress /\ constructed < MaxAttempts)
             => ENABLED ConstructStart(constructed + 1))

\* C19 witness: an attempt that went through the probe and all three legs is
\* Terminal, and a later construction has started a new attempt.
C19_Witness ==
    \E a, b \in started :
        /\ a < b
        /\ Terminal(a)
        /\ log[a][1] = checkAuthorisation
        /\ Completion("gotAccessToken") \in Range(log[a])
        /\ Active(b)

\* the calls of the log that write the given setting
Writes(l, key) == {i \in 1..Len(l) : l[i] = Ev("setString", key, "")}

\* C20: the step that ends an attempt after leg 1 without access-token
\* success (verifier cancelled, access-token request failed) writes no
\* setting, and the attempt wrote Token and TokenSecret last in gotRequestToken
\* and never wrote FullName, NSID or Username; an attempt constructed on a
\* non-empty token and secret starts with the probe.
C20_RequestTokenPairStays ==
    [][/\ (Delivers(delivered', "gotVerifier", "1")
             \/ Delivers(delivered', "gotAccessToken", "HTTP_ERROR"))
          => LET l == log'[delivered'.attempt] IN
             /\ gSavedPerAccountSettings' = gSavedPerAccountSettings
             /\ pending'[delivered'.attempt] = "deleted"
             /\ \A k \in {"ExodusFlickrToken", "ExodusFlickrTokenSecret"} :
                   \A i \in Writes(l, k) :
                      \E j \in Positions(l, Completion("gotVerifier")) : i < j
             /\ \A k \in {"ExodusFlickrFullName", "ExodusFlickrNSID", "ExodusFlickrUsername"} :
                   Writes(l, k) = {}
       /\ \A a \in Attempts :
             (a \notin started /\ a \in started' /\ Token # "" /\ TokenSecret # "")
             => (pending'[a] = "checkResult" /\ log'[a] = << checkAuthorisation >>)]_vars

\* C20 witness: after an attempt whose verifier prompt was cancelled, the
\* store still holds the request-token pair ABC/XYZ and the next attempt has
\* just started with the probe.
C20_Witness ==
    \E a, b \in started :
        /\ b < a
        /\ Terminal(b)
        /\ Completion("gotVerifier") \in Range(log[b])
        /\ Completion("gotAccessToken") \notin Range(log[b])
        /\ Ev("callbackHttpGetRaw", "access_token", "") \notin Range(log[b])
        /\ delivered.attempt = a /\ delivered.handler = "exoFlickrAuth"
        /\ Validating(a)
        /\ Token = "ABC" /\ TokenSecret = "XYZ"
====
